---------------------------- MODULE Spec2Model ----------------------------
(***************************************************************************)
(* Credential lifecycle and local attachment delivery of the Google        *)
(* Calendar / Gmail / Tasks tool functions.                                 *)
(*                                                                         *)
(* Part I   _get_credentials: load token file, silent refresh,             *)
(*          interactive authorization on the fixed port, persist.          *)
(* Part II  _start_file_server: the singleton attachment file server.      *)
(* Part III The MIME part tree and the body / attachment extractions.      *)
(* Part IV  The attachment loop of download_email_attachments.             *)
(* Part V   The tool operations and the results they return.               *)
(*                                                                         *)
(* Every tool module carries a textually identical _get_credentials; the   *)
(* line numbers quoted below are those of src/gmail/attachment_tool.py.    *)
(***************************************************************************)
EXTENDS Naturals, Integers, Sequences, FiniteSets, TLC

(***************************************************************************)
(* Bounds of the model.                                                    *)
(***************************************************************************)
\* acquire calls made in one run, by all invocations together
MaxCalls == 3
\* last value of the clock
MaxTime == 2
\* ticks an access token issued by the token endpoint stays unexpired
Lifetime == 2

\* parts (nodes) of one message's MIME tree, the root included
MaxNodes == 5
\* attachments of one message
MaxAttachments == 2

\* the concurrent tool invocations (threads of one agent process)
Procs == {"p1", "p2"}

(***************************************************************************)
(* Optional values: Python's None is the empty sequence.                   *)
(***************************************************************************)
None == <<>>
Some(v) == <<v>>

VARIABLES
    now,            \* the wall clock, in token-lifetime ticks
    tokenFile,      \* token.json: [exists, data], data a sequence of JSON entries
    file0,          \* the token file as it was before the first call
    authPort,       \* holder of the listener on FIXED_PORT: None or Some(process)
    nextTok,        \* the next token the authorization server issues
    pc,             \* per invocation: position inside _get_credentials
    creds,          \* per invocation: the local variable creds (None or Some(record))
    calls,          \* acquire calls started so far
    call,           \* per invocation: what the current call has done so far
    dirty,          \* per invocation: another invocation wrote the file since this one's last load
    prev            \* per invocation: summary of its previous completed call

credVars == <<now, tokenFile, file0, authPort, nextTok, pc, creds, calls, call, dirty, prev>>

VARIABLES
    _file_server,         \* global: None or Some(server id)
    _file_server_thread,  \* global: None or Some([tid, serves])
    _download_path,       \* global: None or Some(root)
    FILE_SERVER_PORT,     \* global: the port, rewritten by every start
    sockets,              \* listening sockets of this process: [id, port, root]
    alive,                \* the threads running serve_forever: [tid, serves]
    foreign,              \* ports on which another program listens
    silent,               \* ports another program has bound without accepting
    nextId,               \* the next server / thread identity
    spc,                  \* per caller: position inside _start_file_server
    loc,                  \* per caller: download_path, port, max_port
    starts,               \* calls started so far
    res,                  \* per caller: how its last call ended
    lastStart             \* what the last call that started a server returned

srvVars == <<_file_server, _file_server_thread, _download_path, FILE_SERVER_PORT,
             sockets, alive, foreign, silent, nextId, spc, loc, starts, res, lastStart>>

VARIABLES
    payload,              \* msg['payload']: the MIME part tree of one message
    applied,              \* which extraction has run on payload
    email_body_plain,     \* the decoded text/plain body the extraction kept
    email_body_html,      \* the decoded text/html body the extraction kept
    email_body,           \* the body text handed to the caller
    attachments,          \* the attachment descriptors, in the order appended
    raised                \* None, or Some(exception) the extraction raised

mimeVars == <<payload, applied, email_body_plain, email_body_html, email_body,
              attachments, raised>>

VARIABLES
    dl,                   \* per downloader: the locals of download_email_attachments
    files                 \* the downloads directory: file name -> content

loopVars == <<dl, files>>

VARIABLES
    tool_env,             \* what _get_credentials and the remote call will do
    tool_arg,             \* the identifier the agent passes to the tool
    tool_called,          \* the tool operation called, or "none"
    tool_outcome          \* None, or how the call ended: a result or an exception

toolVars == <<tool_env, tool_arg, tool_called, tool_outcome>>

gmailVars == <<mimeVars, loopVars, toolVars>>

vars == <<credVars, srvVars, gmailVars>>

(***************************************************************************)
(* google.oauth2.credentials.Credentials, as far as _get_credentials reads *)
(* it: token, refresh_token, expiry.                                       *)
(***************************************************************************)
Cred(tok, rt, ex) == [token |-> tok, refresh_token |-> rt, expiry |-> ex]

\* creds.expired (the library's clock-skew allowance is left out)
expired(c, t) == c.expiry /= None /\ t >= c.expiry[1]

\* creds.valid
valid(c, t) == c.token /= None /\ ~expired(c, t)

(***************************************************************************)
(* The token file holds a JSON object, modelled as the sequence of its     *)
(* entries <<key, value>> followed by the closing brace.  A null value is  *)
(* the entry <<key, None>>.                                                *)
(***************************************************************************)
END == <<"}", None>>

\* creds.to_json(): the entries whose value is None are dropped
to_json(c) ==
    SelectSeq(<< <<"token", c.token>>,
                 <<"refresh_token", c.refresh_token>>,
                 <<"expiry", c.expiry>> >>,
              LAMBDA e : e[2] /= None) \o <<END>>

\* a JSON object written with every key, nulls included (a file not
\* produced by to_json: hand-edited, or written by another library version)
raw_json(c) ==
    << <<"token", c.token>>, <<"refresh_token", c.refresh_token>>,
       <<"expiry", c.expiry>>, END >>

WellFormed(data) ==
    /\ Len(data) > 0
    /\ data[Len(data)] = END
    /\ \A i \in 1..(Len(data) - 1) : data[i] /= END

HasKey(data, k) == \E i \in 1..Len(data) : data[i][1] = k

Get(data, k) ==
    IF HasKey(data, k)
    THEN LET i == CHOOSE j \in 1..Len(data) :
                    /\ data[j][1] = k
                    /\ \A m \in (j+1)..Len(data) : data[m][1] /= k
         IN data[i][2]
    ELSE None

\* a changed load: whatever the file holds is taken as a record, the missing
\* entries as None
from_authorized_user_file_Lenient(data, t) ==
    Some(Cred(Get(data, "token"),
              Get(data, "refresh_token"),
              IF Get(data, "expiry") = None THEN Some(t) ELSE Get(data, "expiry")))

\* Credentials.from_authorized_user_file inside the try/except of
\* _get_credentials: None when json.load or the required-key check raises
\* (of the required keys only refresh_token is modelled; client_id and
\* client_secret never change); a record without "expiry" is loaded as
\* already expired.
from_authorized_user_file(data, t) ==
    IF ~WellFormed(data) \/ ~HasKey(data, "refresh_token")
    THEN None
    ELSE Some(Cred(Get(data, "token"),
                   Get(data, "refresh_token"),
                   IF Get(data, "expiry") = None THEN Some(t) ELSE Get(data, "expiry")))

\* os.path.exists("token.json") and the guarded load
LoadCreds(f, t) ==
    IF f.exists THEN from_authorized_user_file(f.data, t) ELSE None

\* a write of new at offset 0 of a file holding old
Overlay(old, new) == new \o SubSeq(old, Len(new) + 1, Len(old))


(***************************************************************************)
(* Part I: _get_credentials (attachment_tool.py lines 24-54).              *)
(***************************************************************************)
\* what one call has done so far
InitCall ==
    [ seen       |-> None,       \* the token file content the load step read
      loaded     |-> None,       \* creds after the load step
      hit        |-> FALSE,      \* the load step found a valid record
      chain      |-> FALSE,      \* follows a hit of this invocation, no foreign write between
      prevRet    |-> None,       \* what this invocation's previous call returned
      nRefresh   |-> 0,          \* creds.refresh calls
      refresh    |-> "none",     \* none | ok | fail
      nAuth      |-> 0,          \* interactive authorizations started
      auth       |-> "none",     \* none | ok | fail
      nOpen      |-> 0,          \* open("token.json", "w") calls
      written    |-> None,       \* what this call wrote to the file
      obtained   |-> None,       \* the credential a refresh or authorization gave
      outcome    |-> "none",     \* none | running | ok | AuthorizationError | IOError
      ret        |-> None ]      \* the credential returned

\* the token files a first call may find
InitCreds ==
    { Cred(t, r, e) : t \in {None, Some(0)}, r \in {None, Some(0)},
                      e \in {None, Some(0), Some(1)} }

InitFiles ==
    { [exists |-> FALSE, data |-> <<>>], [exists |-> TRUE, data |-> <<>>] }
    \cup { [exists |-> TRUE, data |-> raw_json(c)] : c \in InitCreds }
    \cup { [exists |-> TRUE, data |-> to_json(c)] : c \in InitCreds }

\* a changed line 33: a record that carries a refresh token is refreshed
\* whether or not it is still valid
AfterLoad_RefreshesValid(c, t) ==
    IF c /= None /\ c[1].refresh_token /= None THEN "refresh"
    ELSE IF c /= None /\ valid(c[1], t) THEN "return"
    ELSE IF c = None THEN "auth"
    ELSE "write"

\* lines 33, 34, 42: where the call goes once creds is loaded
AfterLoad(c, t) ==
    IF c /= None /\ valid(c[1], t) THEN "return"
    ELSE IF c /= None /\ expired(c[1], t) /\ c[1].refresh_token /= None THEN "refresh"
    ELSE IF c = None THEN "auth"
    ELSE "write"

\* a changed line 42: the interactive flow runs after every refresh
AfterRefresh_AlwaysAuthorizes(c) == "auth"

\* a changed line 42: a failed refresh falls out of the function
AfterRefresh_GivesUp(c) == IF c = None THEN "return" ELSE "write"

\* lines 42, 52: where the call goes after the refresh block
AfterRefresh(c) == IF c = None THEN "auth" ELSE "write"

\* a changed line 52: the credential of the interactive flow is not written
AfterAuth_SkipsWrite == "return"

\* line 52: the write follows the authorization block
AfterAuth == "write"

\* creds.refresh(Request()) succeeded: new access token and expiry, the
\* refresh token is carried over
Refreshed(c, tok, t) == Cred(Some(tok), c.refresh_token, Some(t + Lifetime))

\* flow.run_local_server(access_type='offline', prompt='consent') succeeded
Authorized(tok, t) == Cred(Some(tok), Some(tok), Some(t + Lifetime))

\* the call of p ends by raising
Raise(p, kind, c) ==
    /\ call' = [call EXCEPT ![p] = [c EXCEPT !.outcome = kind]]
    /\ pc' = [pc EXCEPT ![p] = "idle"]
    /\ prev' = [prev EXCEPT ![p] = [hit |-> FALSE, ret |-> None]]

\* lines 26-34: load the token file and decide
Begin(p) ==
    /\ pc[p] = "idle"
    /\ calls < MaxCalls
    /\ LET c == LoadCreds(tokenFile, now)
       IN /\ creds' = [creds EXCEPT ![p] = c]
          /\ call' = [call EXCEPT ![p] =
                        [InitCall EXCEPT !.seen = Some(tokenFile),
                                         !.loaded = c,
                                         !.hit = (c /= None /\ valid(c[1], now)),
                                         !.chain = (prev[p].hit /\ ~dirty[p]),
                                         !.prevRet = prev[p].ret,
                                         !.outcome = "running"]]
          /\ pc' = [pc EXCEPT ![p] = AfterLoad(c, now)]
    /\ calls' = calls + 1
    /\ dirty' = [dirty EXCEPT ![p] = FALSE]
    /\ UNCHANGED <<now, tokenFile, file0, authPort, nextTok, prev>>
    /\ UNCHANGED <<srvVars, gmailVars>>

\* lines 35-40: creds.refresh(Request()), inside try/except
Refresh(p) ==
    /\ pc[p] = "refresh"
    /\ \E ok \in BOOLEAN :
         LET c == IF ok THEN Some(Refreshed(creds[p][1], nextTok, now)) ELSE None
         IN /\ creds' = [creds EXCEPT ![p] = c]
            /\ nextTok' = IF ok THEN nextTok + 1 ELSE nextTok
            /\ call' = [call EXCEPT ![p].nRefresh = @ + 1,
                                    ![p].refresh = IF ok THEN "ok" ELSE "fail",
                                    ![p].obtained = c]
            /\ pc' = [pc EXCEPT ![p] = AfterRefresh(c)]
    /\ UNCHANGED <<now, tokenFile, file0, authPort, calls, dirty, prev>>
    /\ UNCHANGED <<srvVars, gmailVars>>

\* a changed bind: the callback listener takes FIXED_PORT over from whoever
\* holds it (address reuse) instead of failing
AuthStart_SharesPort(p) ==
    /\ pc[p] = "auth"
    /\ authPort' = Some(p)
    /\ call' = [call EXCEPT ![p].nAuth = @ + 1]
    /\ pc' = [pc EXCEPT ![p] = "consent"]
    /\ UNCHANGED <<now, tokenFile, file0, nextTok, creds, calls, dirty, prev>>
    /\ UNCHANGED <<srvVars, gmailVars>>

\* lines 43-46: the flow binds its callback listener on FIXED_PORT; the bind
\* raises when the port is held by another flow or by another program
AuthStart(p) ==
    /\ pc[p] = "auth"
    /\ \E taken \in BOOLEAN :
         IF taken \/ authPort /= None
         THEN /\ Raise(p, "AuthorizationError",
                       [call[p] EXCEPT !.nAuth = @ + 1, !.auth = "fail"])
              /\ UNCHANGED authPort
         ELSE /\ authPort' = Some(p)
              /\ call' = [call EXCEPT ![p].nAuth = @ + 1]
              /\ pc' = [pc EXCEPT ![p] = "consent"]
              /\ UNCHANGED prev
    /\ UNCHANGED <<now, tokenFile, file0, nextTok, creds, calls, dirty>>
    /\ UNCHANGED <<srvVars, gmailVars>>

\* lines 46-50: the browser callback arrives and the code is exchanged, or
\* the user denies / the exchange is rejected; the listener is closed
AuthFinish(p) ==
    /\ pc[p] = "consent"
    /\ authPort' = None
    /\ \E ok \in BOOLEAN :
         IF ok
         THEN LET c == Some(Authorized(nextTok, now))
              IN /\ creds' = [creds EXCEPT ![p] = c]
                 /\ nextTok' = nextTok + 1
                 /\ call' = [call EXCEPT ![p].auth = "ok", ![p].obtained = c]
                 /\ pc' = [pc EXCEPT ![p] = AfterAuth]
                 /\ UNCHANGED prev
         ELSE /\ Raise(p, "AuthorizationError", [call[p] EXCEPT !.auth = "fail"])
              /\ UNCHANGED <<creds, nextTok>>
    /\ UNCHANGED <<now, tokenFile, file0, calls, dirty>>
    /\ UNCHANGED <<srvVars, gmailVars>>

\* line 52: open("token.json", "w") truncates the file, or raises OSError
WriteOpen(p) ==
    /\ pc[p] = "write"
    /\ \E ok \in BOOLEAN :
         IF ok
         THEN /\ tokenFile' = [exists |-> TRUE, data |-> <<>>]
              /\ dirty' = [q \in Procs |-> q /= p \/ dirty[q]]
              /\ call' = [call EXCEPT ![p].nOpen = @ + 1]
              /\ pc' = [pc EXCEPT ![p] = "flush"]
              /\ UNCHANGED prev
         ELSE /\ Raise(p, "IOError", [call[p] EXCEPT !.nOpen = @ + 1])
              /\ UNCHANGED <<tokenFile, dirty>>
    /\ UNCHANGED <<now, file0, authPort, nextTok, creds, calls>>
    /\ UNCHANGED <<srvVars, gmailVars>>

\* line 53 and the end of the with block: the buffered text reaches the file
\* at offset 0 when the file object is closed
WriteClose(p) ==
    /\ pc[p] = "flush"
    /\ LET text == to_json(creds[p][1])
       IN /\ tokenFile' = [exists |-> TRUE, data |-> Overlay(tokenFile.data, text)]
          /\ call' = [call EXCEPT ![p].written = Some(text)]
    /\ dirty' = [q \in Procs |-> q /= p \/ dirty[q]]
    /\ pc' = [pc EXCEPT ![p] = "return"]
    /\ UNCHANGED <<now, file0, authPort, nextTok, creds, calls, prev>>
    /\ UNCHANGED <<srvVars, gmailVars>>

\* line 54: return creds
Return(p) ==
    /\ pc[p] = "return"
    /\ call' = [call EXCEPT ![p].outcome = "ok", ![p].ret = creds[p]]
    /\ prev' = [prev EXCEPT ![p] = [hit |-> call[p].hit, ret |-> creds[p]]]
    /\ pc' = [pc EXCEPT ![p] = "idle"]
    /\ UNCHANGED <<now, tokenFile, file0, authPort, nextTok, creds, calls, dirty>>
    /\ UNCHANGED <<srvVars, gmailVars>>

\* time passes between calls and while a user sits at the consent screen;
\* the other steps of a call take no time at the scale of a token lifetime
Tick ==
    /\ now < MaxTime
    /\ \A p \in Procs : pc[p] \in {"idle", "consent"}
    /\ now' = now + 1
    /\ UNCHANGED <<tokenFile, file0, authPort, nextTok, pc, creds, calls, call, dirty, prev>>
    /\ UNCHANGED <<srvVars, gmailVars>>

CredInit ==
    /\ now = 0
    /\ tokenFile \in InitFiles
    /\ file0 = tokenFile
    /\ authPort = None
    /\ nextTok = 1
    /\ pc = [p \in Procs |-> "idle"]
    /\ creds = [p \in Procs |-> None]
    /\ calls = 0
    /\ call = [p \in Procs |-> InitCall]
    /\ dirty = [p \in Procs |-> FALSE]
    /\ prev = [p \in Procs |-> [hit |-> FALSE, ret |-> None]]

CredNext ==
    \/ \E p \in Procs : Begin(p)
    \/ \E p \in Procs : Refresh(p)
    \/ \E p \in Procs : AuthStart(p)
    \/ \E p \in Procs : AuthFinish(p)
    \/ \E p \in Procs : WriteOpen(p)
    \/ \E p \in Procs : WriteClose(p)
    \/ \E p \in Procs : Return(p)
    \/ Tick


(***************************************************************************)
(* Part II: _start_file_server (attachment_tool.py lines 56-99).           *)
(***************************************************************************)
\* FILE_SERVER_PORT as the module sets it
InitialPort == 8000
\* max_port = FILE_SERVER_PORT + 10
PortSpan == 10
\* _start_file_server calls made in one run, by all callers together
MaxStarts == 3

\* the concurrent callers of _start_file_server
Callers == {"c1", "c2"}
\* the download_path arguments
Roots == {"r1", "r2"}


NoRes == [kind |-> "none", server |-> None, port |-> 0, fast |-> FALSE, cold |-> FALSE]
NoLoc == [download_path |-> None, port |-> 0, max_port |-> 0]

\* lines 56-59: a connection to the port is accepted
_is_port_in_use_Never(port) == FALSE

_is_port_in_use(port) ==
    port \in foreign \/ \E s \in sockets : s.port = port

\* bind() of a listening socket succeeds
CanBind(port) ==
    port \notin (foreign \cup silent) /\ \A s \in sockets : s.port /= port

\* lines 73-74: while _is_port_in_use(port) and port < max_port: port += 1
RECURSIVE ProbeLoop(_, _)
ProbeLoop(port, max_port) ==
    IF _is_port_in_use(port) /\ port < max_port
    THEN ProbeLoop(port + 1, max_port)
    ELSE port

\* a changed line 66: the running server is never reused
AlreadyRunning_Never(download_path) == FALSE

\* line 66: the server runs and serves the same path
AlreadyRunning(download_path) ==
    /\ _file_server /= None
    /\ _file_server_thread /= None
    /\ _file_server_thread[1] \in alive
    /\ _download_path = Some(download_path)

\* CPython closes the socket of an HTTPServer that neither the global
\* _file_server nor a running thread refers to any more
Collect(socks, fs, al) ==
    { s \in socks : fs = Some(s.id) \/ \E t \in al : t.serves = s.id }

\* the call of q ends by raise RuntimeError (lines 78, 99)
SRaise(q, r) ==
    /\ res' = [res EXCEPT ![q] = [r EXCEPT !.kind = "RuntimeError"]]
    /\ spc' = [spc EXCEPT ![q] = "idle"]

\* lines 63-71: the singleton check, then port and max_port
SCall(q, download_path) ==
    /\ spc[q] = "idle"
    /\ starts < MaxStarts
    /\ starts' = starts + 1
    /\ IF AlreadyRunning(download_path)
       THEN /\ res' = [res EXCEPT ![q] =
                         [kind |-> "ok", server |-> _file_server,
                          port |-> FILE_SERVER_PORT, fast |-> TRUE, cold |-> FALSE]]
            /\ loc' = [loc EXCEPT ![q] = [NoLoc EXCEPT !.download_path = Some(download_path)]]
            /\ UNCHANGED spc
       ELSE /\ res' = [res EXCEPT ![q] = [NoRes EXCEPT !.kind = "running",
                                                       !.cold = (_file_server = None)]]
            /\ loc' = [loc EXCEPT ![q] =
                         [download_path |-> Some(download_path),
                          port |-> FILE_SERVER_PORT,
                          max_port |-> FILE_SERVER_PORT + PortSpan]]
            /\ spc' = [spc EXCEPT ![q] = "probe"]
    /\ UNCHANGED <<_file_server, _file_server_thread, _download_path, FILE_SERVER_PORT,
                   sockets, alive, foreign, silent, nextId, lastStart>>
    /\ UNCHANGED <<credVars, gmailVars>>

\* lines 73-78: the probing loop and the exhaustion check
Probe(q) ==
    /\ spc[q] = "probe"
    /\ LET port == ProbeLoop(loc[q].port, loc[q].max_port)
       IN /\ loc' = [loc EXCEPT ![q].port = port]
          /\ IF port >= loc[q].max_port
             THEN SRaise(q, res[q])
             ELSE /\ spc' = [spc EXCEPT ![q] = "bind"]
                  /\ UNCHANGED res
    /\ UNCHANGED <<_file_server, _file_server_thread, _download_path, FILE_SERVER_PORT,
                   sockets, alive, foreign, silent, nextId, starts, lastStart>>
    /\ UNCHANGED <<credVars, gmailVars>>

\* line 89: _file_server = HTTPServer(('localhost', port), FileHandler); a
\* failed bind is caught at line 98 and raised again as RuntimeError
Bind(q) ==
    /\ spc[q] = "bind"
    /\ IF CanBind(loc[q].port)
       THEN /\ _file_server' = Some(nextId)
            /\ sockets' = Collect(sockets \cup {[id |-> nextId, port |-> loc[q].port,
                                                 root |-> loc[q].download_path[1]]},
                                  Some(nextId), alive)
            /\ nextId' = nextId + 1
            /\ spc' = [spc EXCEPT ![q] = "thread"]
            /\ UNCHANGED res
       ELSE /\ SRaise(q, res[q])
            /\ UNCHANGED <<_file_server, sockets, nextId>>
    /\ UNCHANGED <<_file_server_thread, _download_path, FILE_SERVER_PORT,
                   alive, foreign, silent, loc, starts, lastStart>>
    /\ UNCHANGED <<credVars, gmailVars>>

\* lines 90-91: a daemon thread runs serve_forever of the global _file_server
ThreadStart(q) ==
    /\ spc[q] = "thread"
    /\ LET t == [tid |-> nextId, serves |-> _file_server[1]]
       IN /\ _file_server_thread' = Some(t)
          /\ alive' = alive \cup {t}
    /\ nextId' = nextId + 1
    /\ spc' = [spc EXCEPT ![q] = "publish"]
    /\ UNCHANGED <<_file_server, _download_path, FILE_SERVER_PORT, sockets,
                   foreign, silent, loc, starts, res, lastStart>>
    /\ UNCHANGED <<credVars, gmailVars>>

\* lines 92-97: _download_path, FILE_SERVER_PORT, and the result
Publish(q) ==
    /\ spc[q] = "publish"
    /\ _download_path' = loc[q].download_path
    /\ FILE_SERVER_PORT' = loc[q].port
    /\ LET r == [res[q] EXCEPT !.kind = "ok", !.server = _file_server,
                               !.port = loc[q].port]
       IN /\ res' = [res EXCEPT ![q] = r]
          /\ lastStart' = r
    /\ spc' = [spc EXCEPT ![q] = "idle"]
    /\ UNCHANGED <<_file_server, _file_server_thread, sockets, alive, foreign, silent,
                   nextId, loc, starts>>
    /\ UNCHANGED <<credVars, gmailVars>>

\* serve_forever ends (an error in the serving loop): the thread is dead
ThreadDies(t) ==
    /\ t \in alive
    /\ alive' = alive \ {t}
    /\ sockets' = Collect(sockets, _file_server, alive \ {t})
    /\ UNCHANGED <<_file_server, _file_server_thread, _download_path, FILE_SERVER_PORT,
                   foreign, silent, nextId, spc, loc, starts, res, lastStart>>
    /\ UNCHANGED <<credVars, gmailVars>>

\* the ports other programs hold when the process starts
ForeignChoices == { {InitialPort + i : i \in 0..(k - 1)} : k \in 0..PortSpan }
SilentChoices == { {}, {InitialPort}, {InitialPort + 1} }

SrvStart(F, S) ==
    /\ _file_server = None
    /\ _file_server_thread = None
    /\ _download_path = None
    /\ FILE_SERVER_PORT = InitialPort
    /\ sockets = {}
    /\ alive = {}
    /\ foreign \in F
    /\ silent \in S
    /\ nextId = 1
    /\ spc = [q \in Callers |-> "idle"]
    /\ loc = [q \in Callers |-> NoLoc]
    /\ starts = 0
    /\ res = [q \in Callers |-> NoRes]
    /\ lastStart = NoRes

SrvInit == SrvStart(ForeignChoices, SilentChoices)

SrvNextOf(C) ==
    \/ \E q \in C, r \in Roots : SCall(q, r)
    \/ \E q \in C : Probe(q)
    \/ \E q \in C : Bind(q)
    \/ \E q \in C : ThreadStart(q)
    \/ \E q \in C : Publish(q)
    \/ \E t \in alive : ThreadDies(t)

(***************************************************************************)
(* Part III  The MIME part tree of a message and the extractions that      *)
(*           walk it: get_email_details, get_latest_emails,                *)
(*           download_email_attachments.                                   *)
(***************************************************************************)
\* dict.get(key, default)
dict_get(d, key, default) == IF key \in DOMAIN d THEN d[key] ELSE default

\* base64.urlsafe_b64decode(data).decode('utf-8') on the body data in use
urlsafe_b64decode(data) ==
    CASE data = "cDE=" -> "p1"
      [] data = "cDI=" -> "p2"
      [] data = "PHA+aDE8L3A+" -> "<p>h1</p>"
      [] data = "PHA+aDI8L3A+" -> "<p>h2</p>"

\* BeautifulSoup(html, "html.parser").get_text(), then the blank-line
\* squeeze and strip() of email_details_tool.py lines 102-104
get_text(html) ==
    CASE html = "<p>h1</p>" -> "h1"
      [] html = "<p>h2</p>" -> "h2"

\* a part without sub-parts, as the Gmail API delivers it
Part(mimeType, filename, body) ==
    [mimeType |-> mimeType, filename |-> filename, body |-> body]

\* a multipart container
Container(parts) ==
    [mimeType |-> "multipart/mixed", filename |-> "", body |-> [size |-> 0],
     parts |-> parts]

\* the leaf parts of the messages whose bodies are extracted: two plain
\* bodies, two HTML bodies, and a text part without inline data
BodyLeaves ==
    { Part("text/plain", "", [size |-> 2, data |-> "cDE="]),
      Part("text/plain", "", [size |-> 2, data |-> "cDI="]),
      Part("text/html", "", [size |-> 9, data |-> "PHA+aDE8L3A+"]),
      Part("text/html", "", [size |-> 9, data |-> "PHA+aDI8L3A+"]),
      Part("text/plain", "note.txt", [size |-> 0]) }

\* the leaf parts of the messages whose attachments are extracted: two
\* attachments, a named part without attachment id, an unnamed part with
\* one, and a part that lacks its mimeType (not well formed)
AttachmentLeaves ==
    { Part("application/pdf", "a.pdf", [size |-> 7, attachmentId |-> "att1"]),
      Part("image/png", "b.png", [attachmentId |-> "att2"]),
      Part("text/plain", "note.txt", [size |-> 0]),
      Part("image/png", "", [size |-> 5, attachmentId |-> "att3"]),
      [filename |-> "c.bin", body |-> [size |-> 3, attachmentId |-> "att4"]] }

RECURSIVE TreesOf(_, _)
RECURSIVE Forests(_, _)
\* the part trees of exactly n parts over the leaves L
TreesOf(L, n) ==
    IF n = 1 THEN L ELSE { Container(f) : f \in Forests(L, n - 1) }

\* the sequences of part trees of m parts in all
Forests(L, m) ==
    IF m = 0 THEN { <<>> }
    ELSE UNION { { <<t>> \o f : t \in TreesOf(L, k), f \in Forests(L, m - k) } :
                 k \in 1..m }

Payloads(L) == UNION { TreesOf(L, n) : n \in 1..MaxNodes }

\* ---- get_email_details: extract_body_recursive, lines 80-97 ----
RECURSIVE extract_body_recursive(_, _)
RECURSIVE extract_body_parts(_, _, _)
extract_body_recursive(pl, acc) ==
    LET body == dict_get(pl, "body", << >>)
        here ==
            IF "mimeType" \in DOMAIN pl
            THEN IF pl.mimeType = "text/plain" /\ "data" \in DOMAIN body
                 THEN [acc EXCEPT !.email_body_plain = urlsafe_b64decode(pl.body.data)]
                 ELSE IF pl.mimeType = "text/html" /\ "data" \in DOMAIN body
                      THEN [acc EXCEPT !.email_body_html = urlsafe_b64decode(pl.body.data)]
                      ELSE acc
            ELSE acc
    IN IF "parts" \in DOMAIN pl
       THEN extract_body_parts(pl.parts, 1, here)
       ELSE here

\* lines 93-94: for part in payload['parts']
extract_body_parts(parts, i, acc) ==
    IF i > Len(parts) THEN acc
    ELSE extract_body_parts(parts, i + 1, extract_body_recursive(parts[i], acc))

\* lines 99-106: the HTML body converted to text if there is one, else the plain body
body_text(plain, html) ==
    IF html /= "" THEN get_text(html) ELSE IF plain /= "" THEN plain ELSE ""

\* ---- get_latest_emails: gmail_tool.py lines 78-97 ----
RECURSIVE latest_parts_loop(_, _, _)
\* lines 83-87: one pass over payload['parts'], no descent
latest_parts_loop(parts, i, acc) ==
    IF i > Len(parts) \/ acc.raised /= None THEN acc
    ELSE LET part == parts[i]
         IN IF "mimeType" \notin DOMAIN part
            THEN latest_parts_loop(parts, i + 1, [acc EXCEPT !.raised = Some("KeyError")])
            ELSE IF part.mimeType = "text/plain" /\ "data" \in DOMAIN part.body
                 THEN latest_parts_loop(parts, i + 1,
                        [acc EXCEPT !.plain_text_body = urlsafe_b64decode(part.body.data)])
                 ELSE IF part.mimeType = "text/html" /\ "data" \in DOMAIN part.body
                      THEN latest_parts_loop(parts, i + 1,
                             [acc EXCEPT !.html_body = urlsafe_b64decode(part.body.data)])
                      ELSE latest_parts_loop(parts, i + 1, acc)

\* lines 78-97: email_body of one message
latest_body(pl) ==
    IF "parts" \in DOMAIN pl
    THEN LET acc == latest_parts_loop(pl.parts, 1,
                      [plain_text_body |-> "", html_body |-> "", raised |-> None])
         IN [plain_text_body |-> acc.plain_text_body, html_body |-> acc.html_body,
             raised |-> acc.raised,
             email_body |-> IF acc.raised /= None THEN ""
                            ELSE body_text(acc.plain_text_body, acc.html_body)]
    ELSE [plain_text_body |-> "", html_body |-> "", raised |-> None,
          email_body |-> IF "data" \in DOMAIN pl.body
                         THEN urlsafe_b64decode(pl.body.data) ELSE ""]

\* ---- download_email_attachments: extract_attachments_recursive,
\*      attachment_tool.py lines 129-145 ----
RECURSIVE extract_attachments_recursive(_, _)
RECURSIVE extract_attachments_parts(_, _, _)
extract_attachments_recursive(pl, acc) ==
    IF acc.raised /= None THEN acc
    ELSE LET here ==
                 IF dict_get(pl, "filename", "") /= ""
                    /\ dict_get(pl.body, "attachmentId", "") /= ""
                 THEN IF "mimeType" \notin DOMAIN pl
                      THEN [acc EXCEPT !.raised = Some("KeyError")]
                      ELSE [acc EXCEPT !.attachments = Append(@,
                              [attachment_id |-> pl.body.attachmentId,
                               filename |-> pl.filename,
                               mime_type |-> pl.mimeType,
                               size |-> dict_get(pl.body, "size", 0)])]
                 ELSE acc
         IN IF here.raised = None /\ "parts" \in DOMAIN pl
            THEN extract_attachments_parts(pl.parts, 1, here)
            ELSE here

\* lines 141-143: for part in payload['parts']
extract_attachments_parts(parts, i, acc) ==
    IF i > Len(parts) THEN acc
    ELSE extract_attachments_parts(parts, i + 1,
                                   extract_attachments_recursive(parts[i], acc))

\* ---- get_email_details: extract_attachments_recursive,
\*      email_details_tool.py lines 110-123 ----
details_attachments_TopOnly(pl, acc) ==
    IF dict_get(pl, "filename", "") /= ""
       /\ dict_get(dict_get(pl, "body", << >>), "attachmentId", "") /= ""
    THEN [acc EXCEPT !.attachments = Append(@,
            [filename |-> pl.filename,
             mime_type |-> dict_get(pl, "mimeType", "unknown"),
             size |-> dict_get(dict_get(pl, "body", << >>), "size", 0),
             attachment_id |-> pl.body.attachmentId])]
    ELSE acc

RECURSIVE details_attachments_recursive(_, _)
RECURSIVE details_attachments_parts(_, _, _)
details_attachments_recursive(pl, acc) ==
    LET here ==
            IF dict_get(pl, "filename", "") /= ""
               /\ dict_get(dict_get(pl, "body", << >>), "attachmentId", "") /= ""
            THEN [acc EXCEPT !.attachments = Append(@,
                    [filename |-> pl.filename,
                     mime_type |-> dict_get(pl, "mimeType", "unknown"),
                     size |-> dict_get(dict_get(pl, "body", << >>), "size", 0),
                     attachment_id |-> pl.body.attachmentId])]
            ELSE acc
    IN IF "parts" \in DOMAIN pl
       THEN details_attachments_parts(pl.parts, 1, here)
       ELSE here

\* lines 119-121: for part in payload['parts']
details_attachments_parts(parts, i, acc) ==
    IF i > Len(parts) THEN acc
    ELSE details_attachments_parts(parts, i + 1,
                                   details_attachments_recursive(parts[i], acc))

NoWalk == [attachments |-> << >>, raised |-> None]

\* ---- the extractions as steps on one message ----
\* get_email_details lines 77-106
DetailsBody ==
    /\ applied = "none"
    /\ LET acc == extract_body_recursive(payload,
                    [email_body_plain |-> "", email_body_html |-> ""])
       IN /\ email_body_plain' = acc.email_body_plain
          /\ email_body_html' = acc.email_body_html
          /\ email_body' = body_text(acc.email_body_plain, acc.email_body_html)
    /\ applied' = "get_email_details.body"
    /\ UNCHANGED <<payload, attachments, raised>>
    /\ UNCHANGED <<credVars, srvVars, loopVars, toolVars>>

\* get_latest_emails lines 78-97
LatestBody ==
    /\ applied = "none"
    /\ LET r == latest_body(payload)
       IN /\ email_body_plain' = r.plain_text_body
          /\ email_body_html' = r.html_body
          /\ email_body' = r.email_body
          /\ raised' = r.raised
    /\ applied' = "get_latest_emails.body"
    /\ UNCHANGED <<payload, attachments>>
    /\ UNCHANGED <<credVars, srvVars, loopVars, toolVars>>

\* download_email_attachments lines 128-145
DownloadAttachments ==
    /\ applied = "none"
    /\ LET acc == extract_attachments_recursive(payload, NoWalk)
       IN /\ attachments' = acc.attachments
          /\ raised' = acc.raised
    /\ applied' = "download_email_attachments.attachments"
    /\ UNCHANGED <<payload, email_body_plain, email_body_html, email_body>>
    /\ UNCHANGED <<credVars, srvVars, loopVars, toolVars>>

\* get_email_details lines 109-123
DetailsAttachments ==
    /\ applied = "none"
    /\ LET acc == details_attachments_recursive(payload, NoWalk)
       IN /\ attachments' = acc.attachments
          /\ raised' = acc.raised
    /\ applied' = "get_email_details.attachments"
    /\ UNCHANGED <<payload, email_body_plain, email_body_html, email_body>>
    /\ UNCHANGED <<credVars, srvVars, loopVars, toolVars>>

\* no message is being read
MimeIdle ==
    /\ payload = None
    /\ applied = "none"
    /\ email_body_plain = ""
    /\ email_body_html = ""
    /\ email_body = ""
    /\ attachments = << >>
    /\ raised = None

\* one message of the bounded family over the leaves L, nothing extracted yet
MimeInit(L) ==
    /\ payload \in Payloads(L)
    /\ applied = "none"
    /\ email_body_plain = ""
    /\ email_body_html = ""
    /\ email_body = ""
    /\ attachments = << >>
    /\ raised = None

BodyNext ==
    \/ DetailsBody
    \/ LatestBody

AttachmentsNext ==
    \/ DownloadAttachments
    \/ DetailsAttachments

(***************************************************************************)
(* Part IV  download_email_attachments: the loop over the attachments      *)
(*          (attachment_tool.py lines 147-213).  A file name is the        *)
(*          sequence of its characters.                                    *)
(***************************************************************************)
\* the invocations of download_email_attachments
Downloaders == {"d1", "d2"}

\* the attachment file names of the messages
FileNames ==
    { <<"a", ".", "b">>,
      <<"a">>,
      <<"a", "_", "1", ".", "b">>,
      <<".", "b">>,
      <<"a", " ", "c", ".", "b">> }

\* the files that may lie in the downloads directory before the call
OldNames == { <<"a", ".", "b">>, <<"a", "_", "1", ".", "b">>, <<"a">> }

splitext_NoExtension(p) == <<p, << >>>>

\* str.rfind(c), counted from 1: the last position of c in p, 0 when absent
rfind(p, c) ==
    LET at == { i \in 1..Len(p) : p[i] = c }
    IN IF at = {} THEN 0 ELSE CHOOSE i \in at : \A j \in at : j <= i

\* os.path.splitext (posixpath): the extension starts at the last dot of the
\* last path component, unless only dots precede it in that component
splitext(p) ==
    LET sepIndex == rfind(p, "/")
        dotIndex == rfind(p, ".")
    IN IF /\ dotIndex > sepIndex
          /\ \E k \in (sepIndex + 1)..(dotIndex - 1) : p[k] /= "."
       THEN <<SubSeq(p, 1, dotIndex - 1), SubSeq(p, dotIndex, Len(p))>>
       ELSE <<p, << >>>>

RECURSIVE str(_)
\* str(counter): the decimal digits of a natural number
str(n) ==
    LET digit == <<"0", "1", "2", "3", "4", "5", "6", "7", "8", "9">>
    IN IF n < 10 THEN <<digit[n + 1]>> ELSE str(n \div 10) \o <<digit[(n % 10) + 1]>>

RECURSIVE resolve_loop(_, _, _, _)
\* lines 175-179: while os.path.exists(file_path), with the names in the directory
resolve_loop(existing, original_filename, filename, counter) ==
    IF filename \in existing
    THEN LET name == splitext(original_filename)[1]
             ext == splitext(original_filename)[2]
         IN resolve_loop(existing, original_filename,
                         name \o <<"_">> \o str(counter) \o ext, counter + 1)
    ELSE filename

\* urllib.parse.quote: letters, digits and _ . - ~ / stay, a space becomes %20
quote(filename) ==
    [i \in 1..Len(filename) |-> IF filename[i] = " " THEN "%20" ELSE filename[i]]

\* line 186: the download link, as port and path
download_link(server_port, filename) ==
    [host |-> "localhost", port |-> server_port, path |-> quote(filename)]

\* the position the for loop of line 158 takes after attachment i
next_attachment_Abort(i, n) == n + 1

next_attachment(i, n) == i + 1

\* the files of the downloads directory after open(file_path, 'wb') and write
written(fs, filename, data) ==
    [f \in DOMAIN fs \cup {filename} |-> IF f = filename THEN data ELSE fs[f]]

NoDl ==
    [attachments |-> << >>, pc |-> "idle", i |-> 0, file_data |-> None,
     filename |-> None, downloaded_files |-> << >>, failed_downloads |-> << >>,
     result |-> None, server_port |-> 0]

\* lines 147-155: the early result for no attachments, else the two lists
DlBegin(d) ==
    /\ dl[d].pc = "start"
    /\ IF dl[d].attachments = << >>
       THEN dl' = [dl EXCEPT ![d].pc = "done",
                             ![d].result = Some([status |-> "No attachments found in this email.",
                                                 file_server_running |-> TRUE])]
       ELSE dl' = [dl EXCEPT ![d].pc = "fetch", ![d].i = 1]
    /\ UNCHANGED files
    /\ UNCHANGED <<credVars, srvVars, mimeVars, toolVars>>

\* lines 196-200: except Exception, then on to the next attachment
Failed(d, error) ==
    [dl EXCEPT ![d].failed_downloads =
                   Append(@, [filename |-> dl[d].attachments[dl[d].i].filename,
                              error |-> error]),
               ![d].i = next_attachment(dl[d].i, Len(dl[d].attachments)),
               ![d].file_data = None,
               ![d].filename = None,
               ![d].pc = IF next_attachment(dl[d].i, Len(dl[d].attachments))
                            > Len(dl[d].attachments)
                         THEN "finish" ELSE "fetch"]

\* lines 161-168: fetch the attachment and decode its data
Fetch(d) ==
    /\ dl[d].pc = "fetch"
    /\ \E outcome \in {"ok", "HttpError", "binascii.Error"} :
         IF outcome = "ok"
         THEN dl' = [dl EXCEPT ![d].file_data =
                                   Some([bytes |-> dl[d].attachments[dl[d].i].attachment_id,
                                         len |-> dl[d].attachments[dl[d].i].size]),
                               ![d].pc = "resolve"]
         ELSE dl' = Failed(d, outcome)
    /\ UNCHANGED files
    /\ UNCHANGED <<credVars, srvVars, mimeVars, toolVars>>

\* lines 171-179: the name that does not exist in the downloads directory
Resolve(d) ==
    /\ dl[d].pc = "resolve"
    /\ LET original_filename == dl[d].attachments[dl[d].i].filename
       IN dl' = [dl EXCEPT ![d].filename =
                               Some(resolve_loop(DOMAIN files, original_filename,
                                                 original_filename, 1)),
                           ![d].pc = "write"]
    /\ UNCHANGED files
    /\ UNCHANGED <<credVars, srvVars, mimeVars, toolVars>>

\* lines 182-194: write the file, build the link, append the success entry;
\* open() or write() may raise OSError, leaving no file or an empty one
Write(d) ==
    /\ dl[d].pc = "write"
    /\ LET attachment == dl[d].attachments[dl[d].i]
           filename == dl[d].filename[1]
           file_data == dl[d].file_data[1]
       IN \E outcome \in {"ok", "OSError", "OSError after open"} :
            CASE outcome = "ok" ->
                   /\ files' = written(files, filename, file_data.bytes)
                   /\ dl' = [dl EXCEPT
                        ![d].downloaded_files =
                            Append(@, [filename |-> filename,
                                       original_filename |-> attachment.filename,
                                       download_link |-> download_link(dl[d].server_port, filename),
                                       file_size |-> file_data.len,
                                       mime_type |-> attachment.mime_type]),
                        ![d].i = next_attachment(dl[d].i, Len(dl[d].attachments)),
                        ![d].file_data = None,
                        ![d].filename = None,
                        ![d].pc = IF next_attachment(dl[d].i, Len(dl[d].attachments))
                                     > Len(dl[d].attachments)
                                  THEN "finish" ELSE "fetch"]
              [] outcome = "OSError" ->
                   /\ files' = files
                   /\ dl' = Failed(d, "OSError")
              [] outcome = "OSError after open" ->
                   /\ files' = written(files, filename, << >>)
                   /\ dl' = Failed(d, "OSError")
    /\ UNCHANGED <<credVars, srvVars, mimeVars, toolVars>>

\* lines 202-213: the result
Finish(d) ==
    /\ dl[d].pc = "finish"
    /\ dl' = [dl EXCEPT ![d].pc = "done",
                        ![d].result =
                            Some([total_attachments |-> Len(dl[d].attachments),
                                  successful_downloads |-> Len(dl[d].downloaded_files),
                                  failed_downloads |-> Len(dl[d].failed_downloads),
                                  download_links |-> dl[d].downloaded_files,
                                  failed_files |-> dl[d].failed_downloads,
                                  file_server_running |-> TRUE])]
    /\ UNCHANGED files
    /\ UNCHANGED <<credVars, srvVars, mimeVars, toolVars>>

\* the attachment list of a message: descriptors with the given file names
Descriptor(i, filename) ==
    [attachment_id |-> <<"att", i>>, filename |-> filename,
     mime_type |-> "application/octet-stream", size |-> i]

AttachmentLists ==
    UNION { { [i \in 1..n |-> Descriptor(i, names[i])] : names \in [1..n -> FileNames] } :
            n \in 0..MaxAttachments }

\* the downloads directory before the call: some old files
OldFiles == { [f \in S |-> <<"old">>] : S \in SUBSET OldNames }

\* no download in progress
LoopIdle ==
    /\ dl = [d \in Downloaders |-> NoDl]
    /\ files = << >>

\* the downloaders of D are each about to process one message
LoopInit(D) ==
    /\ dl \in { [d \in Downloaders |-> IF d \in D THEN row[d] ELSE NoDl] :
                row \in [D -> { [NoDl EXCEPT !.attachments = a, !.pc = "start",
                                             !.server_port = InitialPort] :
                                a \in AttachmentLists }] }
    /\ files \in OldFiles

LoopNextOf(D) ==
    \/ \E d \in D : DlBegin(d)
    \/ \E d \in D : Fetch(d)
    \/ \E d \in D : Resolve(d)
    \/ \E d \in D : Write(d)
    \/ \E d \in D : Finish(d)

(***************************************************************************)
(* Part V   The tool operations as the agent calls them: what each returns *)
(*          or raises when credential acquisition or the remote call       *)
(*          fails.  e.creds is the outcome of _get_credentials, e.remote   *)
(*          the outcome of the remote calls of the operation.              *)
(***************************************************************************)
\* the identifiers the agent passes
Ids == {"id1", "id2"}

\* outcomes of the remote calls: an answer, an answer without items, an
\* HttpError with its status, or another exception (network, timeout)
RemoteOutcomes ==
    { [kind |-> "ok", status |-> 200],
      [kind |-> "empty", status |-> 200],
      [kind |-> "HttpError", status |-> 404],
      [kind |-> "HttpError", status |-> 410],
      [kind |-> "HttpError", status |-> 500],
      [kind |-> "Exception", status |-> 0] }

\* outcomes of _get_credentials: a credential, or the error it raises
CredsOutcomes == {"ok", "AuthorizationError"}

Envs == [creds : CredsOutcomes, remote : RemoteOutcomes]

\* the operation returns the dict r / ends with the exception x
Returned(r) == [kind |-> "return", value |-> r]
Raises(x) == [kind |-> "raise", exc |-> x]

\* str(error) of the exception the environment e makes the body raise
str_error(e) ==
    IF e.creds /= "ok" THEN <<e.creds>>
    ELSE IF e.remote.kind = "HttpError" THEN <<"HttpError", e.remote.status>>
    ELSE <<"Exception">>

\* the body of the operation raises HttpError / another exception
RaisesHttpError(e) == e.creds = "ok" /\ e.remote.kind = "HttpError"
RaisesOther(e) == e.creds /= "ok" \/ e.remote.kind = "Exception"

\* calendar_agent/create_event_tool.py lines 88-142
create_event(e) ==
    IF RaisesHttpError(e)
    THEN Returned([status |-> "error", message |-> "Failed to create event",
                   details |-> str_error(e)])
    ELSE IF RaisesOther(e)
         THEN Returned([status |-> "error", message |-> "An unexpected error occurred",
                        details |-> str_error(e)])
         ELSE Returned([status |-> "success", message |-> "Event created successfully",
                        event_id |-> "new"])

delete_event_No404Branch(event_id, e) ==
    IF RaisesHttpError(e)
    THEN Returned([status |-> "error", message |-> "Failed to delete event",
                   details |-> str_error(e), event_id |-> event_id])
    ELSE IF RaisesOther(e)
         THEN Returned([status |-> "error", message |-> "An unexpected error occurred",
                        details |-> str_error(e), event_id |-> event_id])
         ELSE Returned([status |-> "success", message |-> "Event deleted successfully",
                        event_id |-> event_id])

\* calendar_agent/delete_event_tool.py lines 68-114
delete_event(event_id, e) ==
    IF RaisesHttpError(e)
    THEN IF e.remote.status = 404
         THEN Returned([status |-> "error", message |-> "Event not found",
                        details |-> <<"No event with ID", event_id, "exists">>, event_id |-> event_id])
         ELSE IF e.remote.status = 410
         THEN Returned([status |-> "error", message |-> "Event already deleted",
                        details |-> <<"Event with ID", event_id, "was already deleted">>, event_id |-> event_id])
         ELSE Returned([status |-> "error", message |-> "Failed to delete event",
                        details |-> str_error(e), event_id |-> event_id])
    ELSE IF RaisesOther(e)
         THEN Returned([status |-> "error", message |-> "An unexpected error occurred",
                        details |-> str_error(e), event_id |-> event_id])
         ELSE Returned([status |-> "success", message |-> "Event deleted successfully",
                        event_id |-> event_id])

\* calendar_agent/list_events_tool.py lines 74-152
list_events(e) ==
    IF RaisesHttpError(e)
    THEN Returned([status |-> "error",
                   message |-> <<"An HTTP error occurred: ">> \o str_error(e),
                   events |-> << >>])
    ELSE IF RaisesOther(e)
         THEN Returned([status |-> "error",
                        message |-> <<"An error occurred: ">> \o str_error(e),
                        events |-> << >>])
         ELSE IF e.remote.kind = "empty"
              THEN Returned([count |-> 0, events |-> << >>,
                             message |-> "No upcoming events found"])
              ELSE Returned([count |-> 1, events |-> <<"event">>, time_range |-> "Next days"])

\* calendar_agent/search_events_tool.py lines 77-141
search_events(e) ==
    IF RaisesHttpError(e)
    THEN Returned([status |-> "error",
                   message |-> <<"An HTTP error occurred: ">> \o str_error(e),
                   events |-> << >>])
    ELSE IF RaisesOther(e)
         THEN Returned([status |-> "error",
                        message |-> <<"An error occurred: ">> \o str_error(e),
                        events |-> << >>])
         ELSE IF e.remote.kind = "empty"
              THEN Returned([count |-> 0, query |-> "q", events |-> << >>,
                             message |-> "No events found matching"])
              ELSE Returned([count |-> 1, query |-> "q", events |-> <<"event">>])

\* calendar_agent/update_event_tool.py lines 90-174
update_event(event_id, e) ==
    IF RaisesHttpError(e)
    THEN IF e.remote.status = 404
         THEN Returned([status |-> "error", message |-> "Event not found",
                        details |-> <<"No event with ID", event_id, "exists">>, event_id |-> event_id])
         ELSE Returned([status |-> "error", message |-> "Failed to update event",
                        details |-> str_error(e), event_id |-> event_id])
    ELSE IF RaisesOther(e)
         THEN Returned([status |-> "error", message |-> "An unexpected error occurred",
                        details |-> str_error(e), event_id |-> event_id])
         ELSE Returned([status |-> "success", message |-> "Event updated successfully",
                        event_id |-> event_id])

\* gmail/attachment_tool.py lines 112-218: _get_credentials and build are
\* called before the try of line 115
download_email_attachments(email_id, e) ==
    IF e.creds /= "ok"
    THEN Raises(e.creds)
    ELSE IF RaisesHttpError(e)
         THEN Returned([error |-> <<"Gmail API error: ">> \o str_error(e)])
         ELSE IF RaisesOther(e)
              THEN Returned([error |-> <<"Unexpected error: ">> \o str_error(e)])
              ELSE IF e.remote.kind = "empty"
                   THEN Returned([status |-> "No attachments found in this email.",
                                  file_server_running |-> TRUE])
                   ELSE Returned([email_id |-> email_id, total_attachments |-> 1,
                                  successful_downloads |-> 1, failed_downloads |-> 0,
                                  file_server_running |-> TRUE])

\* gmail/email_details_tool.py lines 57-165: _get_credentials and build are
\* called before the try of line 60
get_email_details(email_id, e) ==
    IF e.creds /= "ok"
    THEN Raises(e.creds)
    ELSE IF RaisesHttpError(e)
         THEN Returned([error |-> <<"Gmail API error: ">> \o str_error(e)])
         ELSE IF RaisesOther(e)
              THEN Returned([error |-> <<"Unexpected error: ">> \o str_error(e)])
              ELSE Returned([id |-> email_id, subject |-> "s", body |-> "b",
                             attachment_count |-> 0])

\* gmail/gmail_tool.py lines 58-111: no try statement
get_latest_emails(e) ==
    IF e.creds /= "ok"
    THEN Raises(e.creds)
    ELSE IF e.remote.kind \in {"HttpError", "Exception"}
         THEN Raises(e.remote.kind)
         ELSE IF e.remote.kind = "empty"
              THEN Returned([status |-> "No emails found."])
              ELSE Returned([count |-> 1, emails |-> <<"email">>])

\* gmail/search_tool.py lines 57-76: no try statement
search_emails(e) ==
    IF e.creds /= "ok"
    THEN Raises(e.creds)
    ELSE IF e.remote.kind \in {"HttpError", "Exception"}
         THEN Raises(e.remote.kind)
         ELSE IF e.remote.kind = "empty"
              THEN Returned([status |-> "No emails found matching your query."])
              ELSE Returned([emails |-> <<"email">>])

\* gmail/send_email_tool.py lines 71-116
send_email(e) ==
    IF RaisesHttpError(e)
    THEN Returned([status |-> "error", message |-> <<"An error occurred: ">> \o str_error(e),
                   details |-> str_error(e)])
    ELSE IF RaisesOther(e)
         THEN Returned([status |-> "error",
                        message |-> <<"Failed to send email: ">> \o str_error(e)])
         ELSE Returned([status |-> "success", message |-> "Email sent successfully",
                        message_id |-> "new"])

\* tasks_agent/complete_task_tool.py lines 71-128
complete_task(task_id, e) ==
    IF RaisesHttpError(e)
    THEN IF e.remote.status = 404
         THEN Returned([status |-> "error", message |-> "Task not found",
                        details |-> <<"No task with ID", task_id, "exists">>, task_id |-> task_id])
         ELSE Returned([status |-> "error", message |-> "Failed to complete task",
                        details |-> str_error(e), task_id |-> task_id])
    ELSE IF RaisesOther(e)
         THEN Returned([status |-> "error", message |-> "An unexpected error occurred",
                        details |-> str_error(e), task_id |-> task_id])
         ELSE Returned([status |-> "success", message |-> "Task marked as completed",
                        task_id |-> task_id])

\* tasks_agent/create_task_tool.py lines 81-126
create_task(e) ==
    IF RaisesHttpError(e)
    THEN Returned([status |-> "error", message |-> "Failed to create task",
                   details |-> str_error(e)])
    ELSE IF RaisesOther(e)
         THEN Returned([status |-> "error", message |-> "An unexpected error occurred",
                        details |-> str_error(e)])
         ELSE Returned([status |-> "success", message |-> "Task created successfully",
                        task_id |-> "new"])

\* tasks_agent/delete_task_tool.py lines 68-106
delete_task(task_id, e) ==
    IF RaisesHttpError(e)
    THEN IF e.remote.status = 404
         THEN Returned([status |-> "error", message |-> "Task not found",
                        details |-> <<"No task with ID", task_id, "exists">>, task_id |-> task_id])
         ELSE Returned([status |-> "error", message |-> "Failed to delete task",
                        details |-> str_error(e), task_id |-> task_id])
    ELSE IF RaisesOther(e)
         THEN Returned([status |-> "error", message |-> "An unexpected error occurred",
                        details |-> str_error(e), task_id |-> task_id])
         ELSE Returned([status |-> "success", message |-> "Task deleted successfully",
                        task_id |-> task_id])

\* tasks_agent/list_tasklists_tool.py lines 61-100
list_tasklists(e) ==
    IF RaisesHttpError(e)
    THEN Returned([status |-> "error",
                   message |-> <<"An HTTP error occurred: ">> \o str_error(e),
                   tasklists |-> << >>])
    ELSE IF RaisesOther(e)
         THEN Returned([status |-> "error",
                        message |-> <<"An error occurred: ">> \o str_error(e),
                        tasklists |-> << >>])
         ELSE IF e.remote.kind = "empty"
              THEN Returned([count |-> 0, tasklists |-> << >>,
                             message |-> "No task lists found."])
              ELSE Returned([count |-> 1, tasklists |-> <<"list">>])

\* tasks_agent/list_tasks_tool.py lines 75-143
list_tasks(tasklist_id, e) ==
    IF RaisesHttpError(e)
    THEN Returned([status |-> "error", message |-> <<"An HTTP error occurred: ">> \o str_error(e),
                   tasklist_id |-> tasklist_id, tasks |-> << >>])
    ELSE IF RaisesOther(e)
         THEN Returned([status |-> "error", message |-> <<"An error occurred: ">> \o str_error(e),
                        tasklist_id |-> tasklist_id, tasks |-> << >>])
         ELSE IF e.remote.kind = "empty"
              THEN Returned([count |-> 0, tasklist_id |-> tasklist_id, tasks |-> << >>,
                             message |-> "No tasks found in this list."])
              ELSE Returned([count |-> 1, tasklist_id |-> tasklist_id, tasks |-> <<"task">>])

\* tasks_agent/update_task_tool.py lines 84-148
update_task(task_id, e) ==
    IF RaisesHttpError(e)
    THEN IF e.remote.status = 404
         THEN Returned([status |-> "error", message |-> "Task not found",
                        details |-> <<"No task with ID", task_id, "exists">>, task_id |-> task_id])
         ELSE Returned([status |-> "error", message |-> "Failed to update task",
                        details |-> str_error(e), task_id |-> task_id])
    ELSE IF RaisesOther(e)
         THEN Returned([status |-> "error", message |-> "An unexpected error occurred",
                        details |-> str_error(e), task_id |-> task_id])
         ELSE Returned([status |-> "success", message |-> "Task updated successfully",
                        task_id |-> task_id])

\* the tool operations, and the result key of the identifier each is asked about
Tools ==
    { "create_event", "delete_event", "list_events", "search_events", "update_event",
      "download_email_attachments", "get_email_details", "get_latest_emails",
      "search_emails", "send_email", "complete_task", "create_task", "delete_task",
      "list_tasklists", "list_tasks", "update_task" }

\* the operation as the agent invokes it with the identifier id
Invoke(t, id, e) ==
    CASE t = "create_event" -> create_event(e)
      [] t = "delete_event" -> delete_event(id, e)
      [] t = "list_events" -> list_events(e)
      [] t = "search_events" -> search_events(e)
      [] t = "update_event" -> update_event(id, e)
      [] t = "download_email_attachments" -> download_email_attachments(id, e)
      [] t = "get_email_details" -> get_email_details(id, e)
      [] t = "get_latest_emails" -> get_latest_emails(e)
      [] t = "search_emails" -> search_emails(e)
      [] t = "send_email" -> send_email(e)
      [] t = "complete_task" -> complete_task(id, e)
      [] t = "create_task" -> create_task(e)
      [] t = "delete_task" -> delete_task(id, e)
      [] t = "list_tasklists" -> list_tasklists(e)
      [] t = "list_tasks" -> list_tasks(id, e)
      [] t = "update_task" -> update_task(id, e)

\* the agent calls tool t
Call(t) ==
    /\ tool_called = "none"
    /\ tool_called' = t
    /\ tool_outcome' = Invoke(t, tool_arg, tool_env)
    /\ UNCHANGED <<tool_env, tool_arg>>
    /\ UNCHANGED <<credVars, srvVars, mimeVars, loopVars>>

\* no tool call
ToolIdle ==
    /\ tool_env = [creds |-> "ok", remote |-> [kind |-> "ok", status |-> 200]]
    /\ tool_arg = "id1"
    /\ tool_called = "none"
    /\ tool_outcome = None

\* one tool call about to be made, under every environment
ToolInit ==
    /\ tool_env \in Envs
    /\ tool_arg \in Ids
    /\ tool_called = "none"
    /\ tool_outcome = None

ToolNext ==
    \/ Call("create_event")
    \/ Call("delete_event")
    \/ Call("list_events")
    \/ Call("search_events")
    \/ Call("update_event")
    \/ Call("download_email_attachments")
    \/ Call("get_email_details")
    \/ Call("get_latest_emails")
    \/ Call("search_emails")
    \/ Call("send_email")
    \/ Call("complete_task")
    \/ Call("create_task")
    \/ Call("delete_task")
    \/ Call("list_tasklists")
    \/ Call("list_tasks")
    \/ Call("update_task")

GmailIdle == MimeIdle /\ LoopIdle /\ ToolIdle


(***************************************************************************)
(* The specifications.                                                     *)
(***************************************************************************)
\* no credential call in progress
CredIdle ==
    /\ now = 0
    /\ tokenFile = [exists |-> FALSE, data |-> <<>>]
    /\ file0 = tokenFile
    /\ authPort = None
    /\ nextTok = 1
    /\ pc = [p \in Procs |-> "idle"]
    /\ creds = [p \in Procs |-> None]
    /\ calls = 0
    /\ call = [p \in Procs |-> InitCall]
    /\ dirty = [p \in Procs |-> FALSE]
    /\ prev = [p \in Procs |-> [hit |-> FALSE, ret |-> None]]

\* concurrent _get_credentials calls on one token file
Init == CredInit /\ SrvStart({{}}, {{}}) /\ GmailIdle

Next == CredNext

Spec == Init /\ [][Next]_vars

\* the acquire calls under the scheduling the code can count on: a step of
\* the call's own thread (refresh, bind of the callback listener, write,
\* return) is taken once it is enabled; the answer of the user to the consent
\* screen, the start of a new call and the passing of time are not owed
LiveFiles ==
    { [exists |-> FALSE, data |-> <<>>],
      [exists |-> TRUE, data |-> to_json(Cred(Some(0), Some(0), Some(1)))] }

LiveInit == Init /\ tokenFile \in LiveFiles

Fairness ==
    \A p \in Procs :
        /\ WF_vars(Refresh(p))
        /\ WF_vars(AuthStart(p))
        /\ WF_vars(WriteOpen(p))
        /\ WF_vars(WriteClose(p))
        /\ WF_vars(Return(p))

SpecLive == LiveInit /\ [][Next]_vars /\ Fairness

\* concurrent _start_file_server calls
ServerInit == CredIdle /\ SrvInit /\ GmailIdle

ServerNext == SrvNextOf(Callers)

SpecServer == ServerInit /\ [][ServerNext]_vars

\* _start_file_server called by one caller at a time
ServerSeqNext == SrvNextOf({"c1"})

SpecServerSeq == ServerInit /\ [][ServerSeqNext]_vars


\* the candidate ports of a first start: range(FILE_SERVER_PORT, max_port)
Candidates == InitialPort..(InitialPort + PortSpan - 1)

\* a first start of the server under every set of candidate ports on which
\* other programs listen
FirstStartInit == CredIdle /\ SrvStart(SUBSET Candidates, SilentChoices) /\ GmailIdle

SpecFirstStart == FirstStartInit /\ [][ServerSeqNext]_vars

SrvIdle == SrvStart({{}}, {{}})

\* the body extractions applied to one message of the bounded family
BodyInit == CredIdle /\ SrvIdle /\ MimeInit(BodyLeaves) /\ LoopIdle /\ ToolIdle

SpecBody == BodyInit /\ [][BodyNext]_vars

\* the attachment extractions applied to one message of the bounded family
AttachmentsInit == CredIdle /\ SrvIdle /\ MimeInit(AttachmentLeaves) /\ LoopIdle /\ ToolIdle

SpecAttachments == AttachmentsInit /\ [][AttachmentsNext]_vars


\* one download_email_attachments call working through its attachments
DownloadInit == CredIdle /\ SrvIdle /\ MimeIdle /\ LoopInit({"d1"}) /\ ToolIdle

DownloadNext == LoopNextOf({"d1"})

SpecDownload == DownloadInit /\ [][DownloadNext]_vars

\* two invocations of download_email_attachments at the same time, each on
\* its own message: the attachment ids of the second message differ from
\* those of the first, the file names are drawn from the same few names
SharedNames == { <<"a", ".", "b">>, <<"a">> }

SharedLists ==
    { a \in AttachmentLists : \A i \in 1..Len(a) : a[i].filename \in SharedNames }

OtherMessage(a) ==
    [i \in 1..Len(a) |-> Descriptor(i + MaxAttachments, a[i].filename)]

ConcurrentInit ==
    /\ CredIdle /\ SrvIdle /\ MimeIdle /\ ToolIdle
    /\ \E a1 \in SharedLists, a2 \in SharedLists :
           dl = [d \in Downloaders |->
                    [NoDl EXCEPT !.attachments = IF d = "d1" THEN a1 ELSE OtherMessage(a2),
                                 !.pc = "start",
                                 !.server_port = InitialPort]]
    /\ files \in OldFiles

ConcurrentNext == LoopNextOf(Downloaders)

SpecConcurrentDownload == ConcurrentInit /\ [][ConcurrentNext]_vars

\* os.getcwd() of the agent process
getcwd == <<"/", "w">>

\* os.path.join (posixpath) of two paths: an absolute second path replaces
\* the first
os_path_join(a, b) ==
    IF Len(b) > 0 /\ b[1] = "/" THEN b
    ELSE IF Len(a) = 0 \/ a[Len(a)] = "/" THEN a \o b
    ELSE a \o <<"/">> \o b

\* line 117: download_path = os.path.join(os.getcwd(), "downloads")
download_path ==
    os_path_join(getcwd, <<"d", "o", "w", "n", "l", "o", "a", "d", "s">>)

\* lines 172, 178: file_path = os.path.join(download_path, filename)
file_path(filename) == os_path_join(download_path, filename)

\* attachment file names as the sender of a message may choose them
SenderNames ==
    { <<"a", ".", "b">>,
      <<"/", "x">>,
      <<".", ".", "/", "x">>,
      <<".", ".", "/", ".", ".", "/", "e", ".", "b">>,
      <<".", "/", "a">> }

SenderLists ==
    UNION { { [i \in 1..n |-> Descriptor(i, names[i])] : names \in [1..n -> SenderNames] } :
            n \in 0..MaxAttachments }

\* one invocation on a message of such a sender, the downloads directory empty
SenderInit ==
    /\ CredIdle /\ SrvIdle /\ MimeIdle /\ ToolIdle
    /\ \E a \in SenderLists :
           dl = [d \in Downloaders |->
                    IF d = "d1"
                    THEN [NoDl EXCEPT !.attachments = a, !.pc = "start",
                                      !.server_port = InitialPort]
                    ELSE NoDl]
    /\ files = << >>

SpecSenderNames == SenderInit /\ [][DownloadNext]_vars


\* one call of a tool operation under every outcome of its environment
ToolCallInit == CredIdle /\ SrvIdle /\ MimeIdle /\ LoopIdle /\ ToolInit

SpecTools == ToolCallInit /\ [][ToolNext]_vars


(***************************************************************************)
(* Claims about _get_credentials.                                          *)
(***************************************************************************)
Done(p) == pc[p] = "idle" /\ call[p].outcome \notin {"none", "running"}

\* C1: every credential _get_credentials returns is valid and unexpired at
\* the moment it is returned, and a call that neither found a valid record
\* nor refreshed one has run the interactive authorization before it returns.
C1_ReturnedCredentialIsValid ==
    \A p \in Procs :
        pc[p] = "return" =>
            /\ creds[p] /= None
            /\ valid(creds[p][1], now)
            /\ (~call[p].hit /\ call[p].refresh /= "ok" => call[p].auth = "ok")

\* C2: a call that finds a valid record directly after a call of the same
\* invocation that found one (no other invocation wrote the file in
\* between) returns the same record and makes no refresh call, no
\* interactive authorization and no write of the token file.
C2_SuccessiveHitsReturnSameRecord ==
    \A p \in Procs :
        call[p].hit /\ call[p].chain =>
            /\ call[p].nRefresh = 0
            /\ call[p].nAuth = 0
            /\ call[p].nOpen = 0
            /\ call[p].written = None
            /\ pc[p] \in {"return", "idle"}
            /\ Done(p) => call[p].outcome = "ok" /\ call[p].ret = call[p].prevRet

C2_Witness ==
    \E p \in Procs :
        /\ Done(p) /\ call[p].hit /\ call[p].chain
        /\ call[p].ret /= None /\ call[p].ret = call[p].prevRet

\* C3: a call whose refresh of an expired record succeeded has made exactly
\* one refresh call and no interactive authorization, and the record it
\* persists expires strictly later than the record it loaded.
C3_RefreshOncePersistLater ==
    \A p \in Procs :
        call[p].refresh = "ok" =>
            /\ expired(call[p].loaded[1], now)
            /\ call[p].loaded[1].refresh_token /= None
            /\ call[p].nRefresh = 1
            /\ call[p].nAuth = 0
            /\ call[p].outcome = "ok" => call[p].written /= None
            /\ call[p].written /= None =>
                 LET back == from_authorized_user_file(call[p].written[1], now)
                 IN /\ back /= None
                    /\ back[1].expiry[1] > call[p].loaded[1].expiry[1]

C3_Witness ==
    \E p \in Procs :
        /\ Done(p) /\ call[p].refresh = "ok" /\ call[p].outcome = "ok"
        /\ tokenFile.data = call[p].written[1]

\* C4: a caller never holds a freshly obtained credential (from a refresh
\* or from an interactive authorization) that this call has not written to
\* the token file before returning it.
C4_PersistedBeforeReturned ==
    \A p \in Procs :
        call[p].outcome = "ok" /\ call[p].obtained /= None =>
            /\ call[p].ret = call[p].obtained
            /\ call[p].written = Some(to_json(call[p].ret[1]))

C4_Witness ==
    \E p \in Procs : call[p].outcome = "ok" /\ call[p].auth = "ok"

\* C5: a call whose silent refresh failed discards the record, goes on to
\* the interactive authorization, and does not fail on account of the
\* refresh: it returns only the credential the authorization gave, and it
\* raises the authorization error exactly when the authorization failed.
C5_RefreshFailureFallsThrough ==
    \A p \in Procs :
        call[p].refresh = "fail" =>
            /\ pc[p] = "auth" => creds[p] = None /\ call[p].outcome = "running"
            /\ pc[p] /= "auth" => call[p].nAuth = 1
            /\ call[p].outcome = "ok" =>
                 call[p].auth = "ok" /\ call[p].ret = call[p].obtained
            /\ call[p].auth = "fail" <=> call[p].outcome = "AuthorizationError"

C5_Witness ==
    \E p \in Procs :
        call[p].refresh = "fail" /\ call[p].auth = "ok" /\ call[p].outcome = "ok"

\* the token file was absent, or is a complete record that to_json wrote
OwnFile(f) ==
    \/ ~f.exists
    \/ \E c \in InitCreds :
         /\ c.token /= None /\ c.refresh_token /= None /\ c.expiry /= None
         /\ f = [exists |-> TRUE, data |-> to_json(c)]

\* C6: _get_credentials raises only in a call whose interactive
\* authorization was attempted and failed, it then raises the authorization
\* error, and it returns no credential (stated for the runs that start from
\* an absent token file or from one this code wrote).
C6_FailsOnlyWhenAuthorizationFails ==
    OwnFile(file0) =>
        \A p \in Procs :
            call[p].outcome \notin {"none", "running", "ok"} =>
                /\ call[p].auth = "fail"
                /\ call[p].outcome = "AuthorizationError"
                /\ call[p].ret = None

\* a token file content that is the file as first found or one complete record
Intact(f) == f = file0 \/ (f.exists /\ WellFormed(f.data))

\* C7: no call reads the token file empty, partial or mixed, and once every
\* call has finished the file holds one complete record (stated for the runs
\* that start from an absent token file or from one this code wrote).
C7_TokenFileNeverTorn ==
    OwnFile(file0) =>
        /\ \A p \in Procs : call[p].seen /= None => Intact(call[p].seen[1])
        /\ (\A p \in Procs : pc[p] = "idle") => Intact(tokenFile)

(***************************************************************************)
(* Claims about _start_file_server.                                        *)
(***************************************************************************)
\* C8: a call made with the served directory of the running server, while
\* its thread is alive, returns the server object and the port that the
\* call which started the server returned, binds no socket, starts no
\* thread, and leaves _file_server, _file_server_thread, _download_path and
\* FILE_SERVER_PORT unchanged.
C8_RestartIsIdempotent ==
    [][ \A q \in Callers, r \in Roots :
          ( /\ spc[q] = "idle"
            /\ starts' = starts + 1
            /\ loc'[q].download_path = Some(r)
            /\ _file_server /= None
            /\ _file_server_thread /= None
            /\ _file_server_thread[1] \in alive
            /\ _download_path = Some(r) )
          => /\ spc'[q] = "idle"
             /\ res'[q].kind = "ok"
             /\ res'[q].server = lastStart.server
             /\ res'[q].port = lastStart.port
             /\ sockets' = sockets
             /\ alive' = alive
             /\ nextId' = nextId
             /\ _file_server' = _file_server
             /\ _file_server_thread' = _file_server_thread
             /\ _download_path' = _download_path
             /\ FILE_SERVER_PORT' = FILE_SERVER_PORT ]_vars

C8_Witness ==
    \E q \in Callers :
        /\ spc[q] = "idle" /\ res[q].fast /\ res[q].kind = "ok"
        /\ res[q].server = lastStart.server /\ res[q].port = lastStart.port
        /\ Cardinality(sockets) = 1

\* C9: when two callers start the server concurrently for the same root
\* while no server is running and no other program holds a candidate port,
\* exactly one listener ends up bound, neither call raises, and both calls
\* return the port of that listener.
C9_ConcurrentFirstCallersShareOneListener ==
    ( /\ foreign = {} /\ silent = {}
      /\ \A q \in Callers : spc[q] = "idle" /\ res[q].kind /= "none" /\ res[q].cold
      /\ \A q1, q2 \in Callers : loc[q1].download_path = loc[q2].download_path )
    => /\ Cardinality(sockets) = 1
       /\ \A q \in Callers : res[q].kind = "ok"
       /\ \A q \in Callers : \E s \in sockets : s.port = res[q].port

\* a listener that is bound and served by a running thread
Serving(s) == \E t \in alive : t.serves = s.id

\* C10: at most one file-server listener of this process is bound and
\* serving at any time.
C10_AtMostOneListener ==
    Cardinality({ s \in sockets : Serving(s) }) <= 1


\* the thread recorded in _file_server_thread is running
RecordedThreadAlive ==
    _file_server_thread /= None /\ _file_server_thread[1] \in alive

\* a listener of this process bound on port, serving root, with a running thread
LiveListener(port, root) ==
    \E s \in sockets : s.port = port /\ s.root = root /\ Serving(s)

\* C11: whenever _start_file_server returns a port for a served directory
\* (by the early return of line 66-67 or by the return of line 97, and also
\* to a caller concurrent with the call that is starting the server), a live
\* listener serving that directory is bound on that port while the recorded
\* server thread runs.
C11_ReturnedPortHasLiveListener ==
    RecordedThreadAlive =>
        /\ \A q \in Callers, r \in Roots :
              spc[q] = "idle" /\ AlreadyRunning(r) =>
                  LiveListener(FILE_SERVER_PORT, r)
        /\ \A q \in Callers :
              spc[q] = "publish" =>
                  LiveListener(loc[q].port, loc[q].download_path[1])


\* the candidate ports on which no other program listens
FreeCandidates == Candidates \ foreign

Lowest(S) == CHOOSE p \in S : \A o \in S : p <= o

\* nothing of the singleton state has been set and nothing is bound or running
Untouched ==
    /\ _file_server = None /\ _file_server_thread = None
    /\ _download_path = None /\ FILE_SERVER_PORT = InitialPort
    /\ sockets = {} /\ alive = {}

\* C20: on a first start, for every set of candidate ports in use, the
\* probing loop stops at the lowest candidate of 8000..8009 that is not in
\* use and the listener is bound there (the bind of line 89 succeeding);
\* when all 10 candidates are in use the call raises, binds no listener,
\* starts no thread and leaves the singleton state unchanged.
C20_BindsLowestFreeCandidate ==
    \A q \in Callers :
        res[q].cold =>
            /\ spc[q] \in {"bind", "thread", "publish"} =>
                 FreeCandidates /= {} /\ loc[q].port = Lowest(FreeCandidates)
            /\ spc[q] \in {"thread", "publish"} =>
                 \E s \in sockets : s.port = Lowest(FreeCandidates)
                                    /\ _file_server = Some(s.id)
            /\ res[q].kind = "ok" =>
                 /\ FreeCandidates /= {}
                 /\ res[q].port = Lowest(FreeCandidates)
                 /\ \E s \in sockets : s.port = res[q].port
                                       /\ res[q].server = Some(s.id)
            /\ res[q].kind = "RuntimeError" =>
                 /\ Untouched
                 /\ FreeCandidates = {} \/ Lowest(FreeCandidates) \in silent
            /\ FreeCandidates = {} /\ spc[q] = "idle" =>
                 res[q].kind = "RuntimeError"

\* the first three candidates and a later one are in use: the 4th is bound
C20_Witness ==
    /\ foreign = {InitialPort, InitialPort + 1, InitialPort + 2, InitialPort + 5}
    /\ \E q \in Callers :
         /\ res[q].cold /\ res[q].kind = "ok" /\ res[q].port = InitialPort + 3
         /\ \E s \in sockets : s.port = InitialPort + 3


(***************************************************************************)
(* Claims about the walk of the MIME part tree.                            *)
(***************************************************************************)
RECURSIVE PreOrder(_)
RECURSIVE PreOrderAll(_, _)
\* the parts of a tree in pre-order: a part, then its sub-parts left to right
PreOrder(pl) ==
    <<pl>> \o (IF "parts" \in DOMAIN pl THEN PreOrderAll(pl.parts, 1) ELSE << >>)

PreOrderAll(parts, i) ==
    IF i > Len(parts) THEN << >>
    ELSE PreOrder(parts[i]) \o PreOrderAll(parts, i + 1)

\* a part of the given MIME type that carries inline data
HasBodyOf(pl, kind) ==
    /\ "mimeType" \in DOMAIN pl /\ pl.mimeType = kind
    /\ "data" \in DOMAIN pl.body

\* the decoded bodies of the given kind, in pre-order
BodiesOf(pl, kind) ==
    LET sel == SelectSeq(PreOrder(pl), LAMBDA x : HasBodyOf(x, kind))
    IN [i \in 1..Len(sel) |-> urlsafe_b64decode(sel[i].body.data)]

\* every part carrying inline text is the root's own sub-part
TextAtTopLevel(pl) ==
    /\ "parts" \in DOMAIN pl
    /\ \A x \in LET all == PreOrder(pl) IN { all[i] : i \in 1..Len(all) } :
         HasBodyOf(x, "text/plain") \/ HasBodyOf(x, "text/html") =>
             \E j \in 1..Len(pl.parts) : pl.parts[j] = x

\* C17: when the tree holds two or more text/plain parts (or text/html
\* parts) with inline data, the body that get_email_details keeps, and the
\* one get_latest_emails keeps from the parts it looks at, is the content of
\* the first such part in pre-order.
C17_FirstOccurrenceWins ==
    ( /\ raised = None
      /\ \/ applied = "get_email_details.body"
         \/ applied = "get_latest_emails.body" /\ TextAtTopLevel(payload) )
    => /\ Len(BodiesOf(payload, "text/plain")) >= 2 =>
            email_body_plain = BodiesOf(payload, "text/plain")[1]
       /\ Len(BodiesOf(payload, "text/html")) >= 2 =>
            email_body_html = BodiesOf(payload, "text/html")[1]

\* C18: for a tree with exactly one text/plain part and exactly one
\* text/html part carrying inline data, wherever they sit, get_email_details
\* and get_latest_emails both obtain the plain body and the HTML body.
C18_BodiesFoundAtAnyDepth ==
    ( /\ applied \in {"get_email_details.body", "get_latest_emails.body"}
      /\ raised = None
      /\ Len(BodiesOf(payload, "text/plain")) = 1
      /\ Len(BodiesOf(payload, "text/html")) = 1 )
    => /\ email_body_plain = BodiesOf(payload, "text/plain")[1]
       /\ email_body_html = BodiesOf(payload, "text/html")[1]

\* a part with a non-empty filename and a body attachmentId
IsAttachment(pl) ==
    /\ "filename" \in DOMAIN pl /\ pl.filename /= ""
    /\ "attachmentId" \in DOMAIN pl.body /\ pl.body.attachmentId /= ""

\* the descriptors of the attachment parts, in pre-order
Descriptors(pl) ==
    LET sel == SelectSeq(PreOrder(pl), IsAttachment)
    IN [i \in 1..Len(sel) |->
          [attachment_id |-> sel[i].body.attachmentId,
           filename |-> sel[i].filename,
           mime_type |-> IF "mimeType" \in DOMAIN sel[i] THEN sel[i].mimeType
                         ELSE "unknown",
           size |-> IF "size" \in DOMAIN sel[i].body THEN sel[i].body.size ELSE 0]]

\* every part has the fields the Gmail API gives a part
WellFormedTree(pl) ==
    LET all == PreOrder(pl)
    IN \A i \in 1..Len(all) : {"mimeType", "filename", "body"} \subseteq DOMAIN all[i]

\* C19: the attachment extraction returns, in pre-order, exactly one
\* descriptor for each part with a non-empty filename and a body
\* attachmentId, at any depth, and none for any other part; on every
\* well-formed tree the extraction of download_email_attachments and the one
\* of get_email_details yield the same sequence.
C19_AttachmentsInPreOrder ==
    /\ applied = "get_email_details.attachments" =>
           raised = None /\ attachments = Descriptors(payload)
    /\ applied = "download_email_attachments.attachments"
       /\ WellFormedTree(payload) =>
           raised = None /\ attachments = Descriptors(payload)
    /\ payload /= None /\ WellFormedTree(payload) =>
           extract_attachments_recursive(payload, NoWalk)
             = details_attachments_recursive(payload, NoWalk)

\* two attachments at different depths, the deeper one first in pre-order
C19_Witness ==
    /\ applied = "download_email_attachments.attachments"
    /\ raised = None
    /\ Len(attachments) = 2
    /\ attachments[1].attachment_id = "att2"
    /\ attachments[2].attachment_id = "att1"
    /\ "parts" \in DOMAIN payload
    /\ Len(payload.parts) = 2
    /\ "parts" \in DOMAIN payload.parts[1]
    /\ attachments = details_attachments_recursive(payload, NoWalk).attachments


(***************************************************************************)
(* Claims about the attachment loop of download_email_attachments.         *)
(***************************************************************************)
\* the attachments the loop of downloader d has dealt with
Processed(d) ==
    IF dl[d].pc \in {"finish", "done"} THEN Len(dl[d].attachments)
    ELSE IF dl[d].pc \in {"fetch", "resolve", "write"} THEN dl[d].i - 1 ELSE 0

\* the elements of seq at the positions in S, in order
Pick(seq, S) == SelectSeq([i \in 1..Len(seq) |-> <<i, seq[i]>>], LAMBDA x : x[1] \in S)

\* the first k attachments split into the successes and the failures, each
\* list in extraction order and every attachment in exactly one of them
SplitsInOrder(atts, k, successes, failures) ==
    \E S \in SUBSET (1..k) :
        LET ok == Pick(atts, S)
            ko == Pick(atts, (1..k) \ S)
        IN /\ Len(successes) = Len(ok)
           /\ Len(failures) = Len(ko)
           /\ \A j \in 1..Len(ok) :
                /\ successes[j].original_filename = ok[j][2].filename
                /\ successes[j].file_size = ok[j][2].size
           /\ \A j \in 1..Len(ko) : failures[j].filename = ko[j][2].filename

\* C12: a failure to fetch, decode or write one attachment does not stop
\* the others: at every point of the loop the attachments dealt with so far
\* are each in exactly one of the two lists, in extraction order, and the
\* result has successful_downloads + failed_downloads = total_attachments
\* with download_links and failed_files being those lists.
C12_EveryAttachmentAccountedFor ==
    \A d \in Downloaders :
        /\ SplitsInOrder(dl[d].attachments, Processed(d),
                         dl[d].downloaded_files, dl[d].failed_downloads)
        /\ dl[d].pc = "done" /\ dl[d].attachments /= << >> =>
             LET result == dl[d].result[1]
             IN /\ result.total_attachments = Len(dl[d].attachments)
                /\ result.successful_downloads + result.failed_downloads
                     = result.total_attachments
                /\ Len(result.download_links) = result.successful_downloads
                /\ Len(result.failed_files) = result.failed_downloads
                /\ SplitsInOrder(dl[d].attachments, Len(dl[d].attachments),
                                 result.download_links, result.failed_files)

\* the first attachment failed and the second one was still downloaded
C12_Witness ==
    \E d \in Downloaders :
        /\ dl[d].pc = "done" /\ Len(dl[d].attachments) = 2
        /\ dl[d].attachments[1].filename /= dl[d].attachments[2].filename
        /\ dl[d].result[1].failed_downloads = 1
        /\ dl[d].result[1].successful_downloads = 1
        /\ dl[d].result[1].failed_files[1].filename = dl[d].attachments[1].filename
        /\ dl[d].result[1].download_links[1].original_filename
             = dl[d].attachments[2].filename

\* where the extension of a file name starts: behind the last dot that has
\* a character other than a dot before it, or at the end of the name
StemLength(f) ==
    LET dots == { i \in 2..Len(f) : f[i] = "." /\ \E k \in 1..(i - 1) : f[k] /= "." }
    IN IF dots = {} THEN Len(f)
       ELSE (CHOOSE i \in dots : \A j \in dots : j <= i) - 1

\* name_n.ext for the file name name.ext
Numbered(f, n) ==
    SubSeq(f, 1, StemLength(f)) \o <<"_">> \o str(n) \o SubSeq(f, StemLength(f) + 1, Len(f))

\* C13: each attachment written is written under its own name when no such
\* file exists in the downloads directory, and otherwise under name_n.ext
\* for the smallest n >= 1 for which no such file exists, the extension
\* kept as it is; this holds as well after an attachment of the same name
\* of the same message; the file is created under the resolved name, no
\* other file changes, and the download link carries the resolved name.
C13_CollisionResolution ==
    [][ \A d \in Downloaders :
          Len(dl'[d].downloaded_files) = Len(dl[d].downloaded_files) + 1 =>
            LET entry == dl'[d].downloaded_files[Len(dl'[d].downloaded_files)]
                original == dl[d].attachments[dl[d].i].filename
                existing == DOMAIN files
            IN /\ entry.original_filename = original
               /\ entry.filename \notin existing
               /\ original \notin existing => entry.filename = original
               /\ original \in existing =>
                    \E n \in 1..(Cardinality(existing) + 1) :
                        /\ entry.filename = Numbered(original, n)
                        /\ \A m \in 1..(n - 1) : Numbered(original, m) \in existing
               /\ DOMAIN files' = existing \cup {entry.filename}
               /\ files'[entry.filename] = dl[d].attachments[dl[d].i].attachment_id
               /\ \A f \in existing : files'[f] = files[f]
               /\ entry.download_link.path = quote(entry.filename)
               /\ entry.download_link.port = dl[d].server_port ]_vars

\* a.b lay in the directory; two attachments of one message named a.b were
\* written as a_1.b and a_2.b, and a name with a space is quoted in its link
C13_Witness ==
    \E d \in Downloaders :
        /\ dl[d].pc = "done" /\ Len(dl[d].downloaded_files) = 2
        /\ dl[d].downloaded_files[1].original_filename = <<"a", ".", "b">>
        /\ dl[d].downloaded_files[2].original_filename = <<"a", ".", "b">>
        /\ dl[d].downloaded_files[1].filename = <<"a", "_", "1", ".", "b">>
        /\ dl[d].downloaded_files[2].filename = <<"a", "_", "2", ".", "b">>
        /\ files[<<"a", ".", "b">>] = <<"old">>
        /\ files[<<"a", "_", "2", ".", "b">>] = <<"att", 2>>


(***************************************************************************)
(* Claims about the results of the tool operations.                        *)
(***************************************************************************)
\* C14: no tool operation ends with an exception: whatever fails, the
\* credential acquisition or a remote call, every tool (get_latest_emails,
\* search_emails, get_email_details and download_email_attachments
\* included) returns a result to the agent.
C14_NoUnhandledException ==
    tool_called /= "none" => tool_outcome.kind = "return"

\* the tools that are asked about one event, email or task, with the key
\* under which a result names it
IdKey ==
    [t \in { "delete_event", "update_event", "download_email_attachments",
             "get_email_details", "complete_task", "delete_task", "update_task" } |->
        CASE t \in {"delete_event", "update_event"} -> {"event_id"}
          [] t \in {"download_email_attachments", "get_email_details"} -> {"email_id", "id"}
          [] OTHER -> {"task_id"}]

\* a result that reports an error
IsErrorResult(r) ==
    \/ "status" \in DOMAIN r /\ r.status = "error"
    \/ "error" \in DOMAIN r

\* C15: every result a tool returns is tagged success or error, and every
\* error result carries a message and, when the operation is asked about
\* one event, email or task, the identifier it was asked about.
C15_ResultsTaggedAndIdentified ==
    tool_called /= "none" /\ tool_outcome.kind = "return" =>
        LET r == tool_outcome.value
        IN /\ "status" \in DOMAIN r /\ r.status \in {"success", "error"}
           /\ IsErrorResult(r) =>
                /\ "message" \in DOMAIN r \/ "error" \in DOMAIN r
                /\ tool_called \in DOMAIN IdKey =>
                     \E k \in IdKey[tool_called] : k \in DOMAIN r /\ r[k] = tool_arg

\* C16: when the remote API answers 404 to delete_event or delete_task, the
\* result is the not-found error carrying the requested identifier, and not
\* the generic failure result.
C16_DeleteNotFound ==
    ( /\ tool_called \in {"delete_event", "delete_task"}
      /\ tool_env.creds = "ok"
      /\ tool_env.remote = [kind |-> "HttpError", status |-> 404] )
    => /\ tool_outcome.kind = "return"
       /\ tool_outcome.value.status = "error"
       /\ tool_outcome.value.message
            = (IF tool_called = "delete_event" THEN "Event not found" ELSE "Task not found")
       /\ tool_outcome.value.message
            \notin {"Failed to delete event", "Failed to delete task",
                    "An unexpected error occurred"}
       /\ \E k \in IdKey[tool_called] :
            k \in DOMAIN tool_outcome.value /\ tool_outcome.value[k] = tool_arg

\* delete_event was asked about id2, the API answered 404
C16_Witness ==
    /\ tool_called = "delete_event"
    /\ tool_arg = "id2"
    /\ tool_env.creds = "ok"
    /\ tool_env.remote.kind = "HttpError" /\ tool_env.remote.status = 404
    /\ tool_outcome.kind = "return"
    /\ tool_outcome.value.message = "Event not found"
    /\ tool_outcome.value.event_id = "id2"


\* C21: when the connection probe finds a candidate port free and binding
\* the listener to it fails, the call goes on to the next candidate: a first
\* start ends in RuntimeError only when no port of its candidates can be
\* bound.
C21_BindFailureAdvances ==
    \A q \in Callers :
        res[q].cold /\ res[q].kind = "RuntimeError" =>
            \A p \in Candidates : ~CanBind(p)


\* C22: a call made with a served directory other than that of the running
\* server, while its thread is alive, returns the port of the existing
\* listener and starts no new listener.
C22_OtherRootReturnsExistingPort ==
    [][ \A q \in Callers, r \in Roots :
          ( /\ spc[q] = "idle"
            /\ starts' = starts + 1
            /\ loc'[q].download_path = Some(r)
            /\ _file_server /= None
            /\ RecordedThreadAlive
            /\ _download_path /= None
            /\ _download_path /= Some(r) )
          => /\ spc'[q] = "idle"
             /\ res'[q].kind = "ok"
             /\ res'[q].port = FILE_SERVER_PORT
             /\ sockets' = sockets
             /\ alive' = alive ]_vars


\* C23: after any sequence of calls, restarts after a change of directory or
\* a dead thread included, every probing run starts at the initial port 8000
\* and ends at 8000 + 10, and every listener of the process is bound to one
\* of these ten candidates, so that the authorization port 8080 is never
\* probed or bound.
C23_ProbingStaysInCandidates ==
    /\ \A q \in Callers :
           spc[q] \in {"probe", "bind", "thread", "publish"} =>
               /\ loc[q].max_port = InitialPort + PortSpan
               /\ loc[q].port \in InitialPort..(InitialPort + PortSpan)
    /\ \A s \in sockets : s.port \in Candidates


\* C28: when the remote API answers 410 to delete_event or delete_task, the
\* result is the already-gone error and not the generic failure; when it
\* answers a status other than 404 and 410, the result is the generic failure.
C28_DeleteGoneAndGeneric ==
    ( /\ tool_called \in {"delete_event", "delete_task"}
      /\ tool_env.creds = "ok"
      /\ tool_env.remote.kind = "HttpError" )
    => /\ tool_outcome.kind = "return"
       /\ tool_outcome.value.status = "error"
       /\ tool_env.remote.status = 410 =>
            /\ tool_outcome.value.message \in {"Event already deleted", "Task already deleted"}
            /\ tool_outcome.value.message
                 \notin {"Failed to delete event", "Failed to delete task"}
       /\ tool_env.remote.status \notin {404, 410} =>
            tool_outcome.value.message
              = (IF tool_called = "delete_event" THEN "Failed to delete event"
                                                  ELSE "Failed to delete task")


\* C24: the token file is changed only by an acquire call in which a refresh
\* or an interactive authorization has succeeded; every other call (valid
\* record, failed authorization, invalid record that cannot be refreshed)
\* leaves the file as it was.
C24_FileWrittenOnlyAfterSuccess ==
    [][ \A p \in Procs :
          (tokenFile' /= tokenFile /\ pc'[p] /= pc[p])
              => (call[p].refresh = "ok" \/ call[p].auth = "ok") ]_vars


\* the token file f cannot be parsed into a record: json.load or the check
\* of the required keys raises
Unparsable(f) ==
    f.exists /\ (~WellFormed(f.data) \/ ~HasKey(f.data, "refresh_token"))

\* C25: a call that finds the token file missing and a call that finds it
\* unparsable go the same way: the load raises nothing and leaves creds at
\* None, no refresh is attempted, and the interactive authorization is
\* invoked.
C25_AbsentAndUnparsableAlike ==
    \A p \in Procs :
        ( /\ call[p].seen /= None
          /\ (~call[p].seen[1].exists \/ Unparsable(call[p].seen[1])) )
        => /\ call[p].loaded = None
           /\ call[p].nRefresh = 0
           /\ call[p].refresh = "none"
           /\ pc[p] /= "refresh"
           /\ (pc[p] = "auth" \/ call[p].nAuth = 1)
           /\ call[p].outcome = "IOError" => call[p].auth = "ok"

\* one call found an unparsable token file and one found none, and both
\* have been through the interactive authorization
C25_Witness ==
    /\ call["p1"].seen /= None
    /\ call["p2"].seen /= None
    /\ Unparsable(call["p1"].seen[1])
    /\ call["p1"].auth = "ok"
    /\ call["p1"].outcome = "ok"
    /\ ~call["p2"].seen[1].exists
    /\ call["p2"].auth = "ok"


\* C26: while the interactive authorization of one call holds port 8080, a
\* step of another call that reaches its authorization ends that call at once
\* with the authorization error; the call does not wait for the port and the
\* listener stays with its holder.
C26_SecondAuthorizationFailsAtOnce ==
    [][ \A p \in Procs :
          ( /\ pc[p] = "auth"
            /\ pc'[p] /= "auth"
            /\ authPort /= None
            /\ authPort /= Some(p) )
          => /\ pc'[p] = "idle"
             /\ call'[p].outcome = "AuthorizationError"
             /\ call'[p].auth = "fail"
             /\ call'[p].ret = None
             /\ authPort' = authPort ]_vars

\* p1 waits for the user's consent with the listener on port 8080, and the
\* call of p2 has ended with the authorization error
C26_Witness ==
    /\ pc["p1"] = "consent"
    /\ authPort = Some("p1")
    /\ pc["p2"] = "idle"
    /\ call["p2"].nAuth = 1
    /\ call["p2"].outcome = "AuthorizationError"


\* C27: every acquire call that has started eventually returns or fails,
\* also when the user never answers the consent screen: the wait for the
\* authorization is bounded.
C27_EveryCallEnds ==
    \A p \in Procs : (pc[p] /= "idle") ~> (pc[p] = "idle")


\* every download link names a file that holds the bytes of the attachment
\* the link was made for, and no two links name the same file
LinksServeOwnBytes ==
    LET Entries == { <<d, k>> : d \in Downloaders, k \in 1..MaxAttachments }
        Made == { x \in Entries : x[2] <= Len(dl[x[1]].downloaded_files) }
        entry(x) == dl[x[1]].downloaded_files[x[2]]
    IN /\ \A x \in Made :
            /\ entry(x).filename \in DOMAIN files
            /\ files[entry(x).filename] = <<"att", entry(x).file_size>>
       /\ \A x \in Made, y \in Made :
            x /= y => entry(x).filename /= entry(y).filename

\* C29: download_email_attachments never overwrites a file that exists in
\* the downloads directory: in every interleaving of two concurrent
\* downloads no step changes the content of an existing file, the
\* attachments are written to distinct paths and every link serves the bytes
\* of its own attachment.
C29_NeverOverwrites ==
    [][ /\ \A f \in DOMAIN files : f \in DOMAIN files' /\ files'[f] = files[f]
        /\ LinksServeOwnBytes' ]_vars


RECURSIVE split(_, _, _, _)
\* path.split('/'): the components of a path, the empty ones included
split(p, i, cur, acc) ==
    IF i > Len(p) THEN Append(acc, cur)
    ELSE IF p[i] = "/" THEN split(p, i + 1, << >>, Append(acc, cur))
    ELSE split(p, i + 1, Append(cur, p[i]), acc)

RECURSIVE collapse(_, _, _)
\* the components of an absolute path once '', '.' and '..' are resolved
collapse(comps, i, acc) ==
    IF i > Len(comps) THEN acc
    ELSE IF comps[i] \in { << >>, <<".">> } THEN collapse(comps, i + 1, acc)
    ELSE IF comps[i] = <<".", ".">>
         THEN collapse(comps, i + 1,
                       IF acc = << >> THEN acc ELSE SubSeq(acc, 1, Len(acc) - 1))
    ELSE collapse(comps, i + 1, Append(acc, comps[i]))

\* the file the absolute path names
resolved(p) == collapse(split(p, 1, << >>, << >>), 1, << >>)

\* the path names a file below the directory
Inside(p, dir) ==
    /\ Len(resolved(p)) > Len(resolved(dir))
    /\ SubSeq(resolved(p), 1, Len(resolved(dir))) = resolved(dir)

\* C30: every file download_email_attachments writes lies inside the
\* downloads directory, whatever file name the message gives the attachment:
\* an absolute path, a name with separators, a name with '..' components.
C30_WritesStayInside ==
    \A filename \in DOMAIN files : Inside(file_path(filename), download_path)

=============================================================================
